---- MODULE Spec2Model ----
(***************************************************************************)
(* A model of kilo.c (the second, complete revision in src/kilo.c, lines   *)
(* 193-596): raw-mode handling, the key decoder, the viewport probe, the   *)
(* append buffer, the row store, the renderer and the cursor.              *)
(*                                                                         *)
(* Bytes are integers 0..255; a byte string is a sequence of bytes.        *)
(* The environment is the set of outcomes of the calls whose result the    *)
(* code tests: tcgetattr, tcsetattr, ioctl, write (in the size probe),     *)
(* read, fopen, getline and realloc (in abAppend).  The malloc and realloc  *)
(* of editorAppendRow, whose results the code uses unchecked, succeed.     *)
(* What write() delivers is not modelled: a write is the call and the      *)
(* bytes handed to it.                                                     *)
(***************************************************************************)
EXTENDS Integers, Sequences, FiniteSets

(***************************************************************************)
(* Bounds of the model.                                                    *)
(***************************************************************************)
\* largest row / column count a terminal reports
MaxRows == 2
MaxCols == 2
\* cap on a cursor coordinate that the code itself does not bound
MaxCoord == 2
\* most abAppend calls whose realloc fails within one frame
MaxAllocFail == 1
\* most calls made on the append buffer / the row store on their own
MaxAppends == 3
\* the longest file editorOpen is given on its own
MaxFileLen == 6

(***************************************************************************)
(* Program constants.                                                      *)
(***************************************************************************)
ESC == 27
ARROW_LEFT == 1000
ARROW_RIGHT == 1001
ARROW_UP == 1002
ARROW_DOWN == 1003
DEL_KEY == 1004
PAGE_UP == 1005
PAGE_DOWN == 1006
\* CTRL_KEY('q') = 'q' & 0x1f
CTRL_Q == 17
\* sizeof(buf) - 1 in getCursorPosition
CprCap == 31
\* a value of `key` meaning that editorReadKey has not returned
NoKey == 0 - 1000

\* "\x1b[2J", "\x1b[H", "\x1b[K", "\r\n", "\x1b[?25l", "\x1b[?25h", "~", " "
ClearScreen == <<27, 91, 50, 74>>
Home == <<27, 91, 72>>
EraseLine == <<27, 91, 75>>
CrLf == <<13, 10>>
HideCursor == <<27, 91, 63, 50, 53, 108>>
ShowCursor == <<27, 91, 63, 50, 53, 104>>
Tilde == <<126>>
Space == <<32>>
\* "\x1b[6n" and "\x1b[999C\x1b[999B"
CprRequest == <<27, 91, 54, 110>>
GoBottomRight == <<27, 91, 57, 57, 57, 67, 27, 91, 57, 57, 57, 66>>
\* "Kilo editor -- version " KILO_VERSION
Welcome == <<75, 105, 108, 111, 32, 101, 100, 105, 116, 111, 114, 32, 45, 45, 32,
             118, 101, 114, 115, 105, 111, 110, 32, 48, 46, 48, 46, 49>>

VARIABLES
    pc,            \* position of the process in main()
    term,          \* the terminal's attributes: "cooked" or "raw"
    orig_termios,  \* E.orig_termios: "unset" until tcgetattr stores the snapshot
    atexitReg,     \* disableRawMode is registered with atexit
    exitStatus,    \* the status passed to the first exit(), -1 while running
    restores,      \* calls of tcsetattr(&E.orig_termios) made by disableRawMode
    restoreFailed, \* such a call returned -1
    cx, cy, screenrows, screencols, numrows, row,   \* struct editorConfig E
    c, seq,        \* editorReadKey's locals: first byte, seq[] bytes read so far
    lastRead,      \* outcome of the latest read() on stdin
    key,           \* the value editorReadKey returned last
    writes,        \* the write() calls on stdout made by the latest step
    failed,        \* indices of the abAppend calls whose realloc failed in the latest step
    ab,            \* a struct abuf used on its own
    asked,         \* the abAppend calls made on `ab`: <<bytes, succeeded>>
    appended,      \* the lines handed to the row store on its own
    opened,        \* the contents of the file editorOpen is given on its own
    stdinBytes,    \* the bytes on stdin when getCursorPosition is called on its own
    probe          \* what that call of getCursorPosition gave

vars == <<pc, term, orig_termios, atexitReg, exitStatus, restores, restoreFailed,
          cx, cy, screenrows, screencols, numrows, row, c, seq, lastRead, key,
          writes, failed, ab, asked, appended, opened, stdinBytes, probe>>

termVars == <<term, orig_termios, atexitReg, restores, restoreFailed>>
editorVars == <<cx, cy, screenrows, screencols, numrows, row>>
keyVars == <<c, seq, lastRead, key>>
unitVars == <<ab, asked, appended, opened, stdinBytes, probe>>

(***************************************************************************)
(* Helpers on byte strings.                                                *)
(***************************************************************************)
RECURSIVE Dec(_)
\* the decimal digits printf's %d gives for n >= 0
Dec(n) == IF n < 10 THEN <<48 + n>> ELSE Dec(n \div 10) \o <<48 + (n % 10)>>

RECURSIVE Repeat(_, _)
Repeat(s, n) == IF n <= 0 THEN <<>> ELSE s \o Repeat(s, n - 1)

Min(a, b) == IF a < b THEN a ELSE b

IsDigit(b) == b >= 48 /\ b <= 57

\* the outcome of one read(fd, &byte, 1)
ReadByte(b) == [n |-> 1, b |-> b, errno |-> "none"]
ReadTimeout == [n |-> 0, b |-> 0, errno |-> "none"]
ReadEAGAIN == [n |-> -1, b |-> 0, errno |-> "EAGAIN"]
ReadEIO == [n |-> -1, b |-> 0, errno |-> "EIO"]
NoRead == [n |-> 0, b |-> 0, errno |-> "unread"]

\* getCursorPosition has not been called on its own
NoProbe == [ret |-> 1, rows |-> 0, cols |-> 0, writes |-> <<>>]

(***************************************************************************)
(* Termination: die() and exit().                                          *)
(***************************************************************************)
\* die(): the two writes it makes before exit(1)
dieWrites == <<ClearScreen, Home>>

\* exit(status) entered from the program: the atexit handlers are still to run
Exit(status, w) ==
    /\ pc' = "atexit"
    /\ exitStatus' = status
    /\ writes' = w

\* die(s) called outside an atexit handler
die ==
    Exit(1, dieWrites)

\* a disableRawMode that returns without setting the attributes back
disableRawModeNoRestore ==
    /\ pc = "atexit"
    /\ atexitReg
    /\ restores' = restores + 1
    /\ pc' = "done"
    /\ writes' = <<>>
    /\ failed' = {}
    /\ UNCHANGED <<term, restoreFailed, exitStatus, orig_termios, atexitReg,
                   editorVars, keyVars, unitVars>>

\* a disableRawMode that the exit() of its own die() runs a second time
disableRawModeRerun ==
    /\ pc = "atexit"
    /\ atexitReg
    /\ \/ /\ restores' = restores + 1
          /\ term' = orig_termios
          /\ pc' = "done"
          /\ writes' = <<>>
          /\ UNCHANGED <<restoreFailed, exitStatus>>
       \/ /\ restores' = restores + 2
          /\ restoreFailed' = TRUE
          /\ writes' = dieWrites \o dieWrites
          /\ pc' \in {"done", "crashed"}
          /\ exitStatus' = 1
          /\ UNCHANGED term
    /\ UNCHANGED <<orig_termios, atexitReg, editorVars, keyVars, unitVars>>
    /\ failed' = {}

\* the atexit handler, run by exit(): disableRawMode, whose tcsetattr may fail;
\* it then calls die(), and so exit() a second time from inside a handler, which
\* is undefined: the C library either goes on to end the process (glibc) or
\* traps (musl)
disableRawMode ==
    /\ pc = "atexit"
    /\ atexitReg
    /\ restores' = restores + 1
    /\ \/ /\ term' = orig_termios
          /\ pc' = "done"
          /\ writes' = <<>>
          /\ UNCHANGED <<restoreFailed, exitStatus>>
       \/ /\ restoreFailed' = TRUE
          /\ writes' = dieWrites
          /\ pc' \in {"done", "crashed"}
          /\ exitStatus' = 1
          /\ UNCHANGED term
    /\ UNCHANGED <<orig_termios, atexitReg, editorVars, keyVars, unitVars>>
    /\ failed' = {}

\* exit() with no handler registered
ExitNoHandler ==
    /\ pc = "atexit"
    /\ ~atexitReg
    /\ pc' = "done"
    /\ writes' = <<>>
    /\ UNCHANGED <<termVars, exitStatus, editorVars, keyVars, unitVars>>
    /\ failed' = {}

(***************************************************************************)
(* enableRawMode                                                           *)
(***************************************************************************)
enableRawMode ==
    /\ pc = "main"
    /\ \E getOk \in BOOLEAN, setOk \in BOOLEAN :
          IF ~getOk
          THEN /\ die
               /\ UNCHANGED <<term, orig_termios, atexitReg>>
          ELSE /\ orig_termios' = term
               /\ atexitReg' = TRUE
               /\ IF setOk
                  THEN /\ term' = "raw"
                       /\ pc' = "initEditor"
                       /\ writes' = <<>>
                       /\ UNCHANGED exitStatus
                  ELSE /\ die
                       /\ UNCHANGED term
    /\ UNCHANGED <<restores, restoreFailed, editorVars, keyVars, unitVars>>
    /\ failed' = {}

(***************************************************************************)
(* The viewport probe: getCursorPosition, getWindowSize, initEditor.       *)
(***************************************************************************)
\* the bytes before the first 'R' of a reply (all of it when it holds none)
RECURSIVE UpToR(_)
UpToR(reply) ==
    IF reply = <<>> \/ Head(reply) = 82 THEN <<>>
    ELSE <<Head(reply)>> \o UpToR(Tail(reply))

\* buf[] as the read loop leaves it: at most sizeof(buf)-1 bytes, ended by the
\* first 'R' or by the first read() that returns no byte
CprBuf(reply) ==
    LET cut == UpToR(reply)
    IN  SubSeq(cut, 1, Min(Len(cut), CprCap))

IsSpace(b) == b = 32 \/ (b >= 9 /\ b <= 13)

RECURSIVE SkipSpace(_, _)
SkipSpace(s, p) ==
    IF p <= Len(s) /\ IsSpace(s[p]) THEN SkipSpace(s, p + 1) ELSE p

RECURSIVE ScanDigits(_, _, _)
\* the digits of s from position p on, added to the value v read so far
ScanDigits(s, p, v) ==
    IF p <= Len(s) /\ IsDigit(s[p])
    THEN ScanDigits(s, p + 1, 10 * v + (s[p] - 48))
    ELSE [val |-> v, next |-> p]

\* one %d conversion of sscanf at position p of s
ScanInt(s, p) ==
    LET q == SkipSpace(s, p)
        neg == q <= Len(s) /\ s[q] = 45
        d == IF q <= Len(s) /\ (s[q] = 45 \/ s[q] = 43) THEN q + 1 ELSE q
        r == ScanDigits(s, d, 0)
    IN  IF d <= Len(s) /\ IsDigit(s[d])
        THEN [ok |-> TRUE, val |-> IF neg THEN 0 - r.val ELSE r.val, next |-> r.next]
        ELSE [ok |-> FALSE, val |-> 0, next |-> d]

\* sscanf(s, "%d;%d", rows, cols): the count of conversions and what they stored
Sscanf2(s, rows, cols) ==
    LET a == ScanInt(s, 1)
        semi == a.ok /\ a.next <= Len(s) /\ s[a.next] = 59
        b == IF semi THEN ScanInt(s, a.next + 1) ELSE [ok |-> FALSE, val |-> 0, next |-> 0]
    IN  [n |-> IF ~a.ok THEN 0 ELSE IF b.ok THEN 2 ELSE 1,
         rows |-> IF a.ok THEN a.val ELSE rows,
         cols |-> IF b.ok THEN b.val ELSE cols]

\* getCursorPosition: writeOk is whether the request was written in full,
\* reply the bytes waiting on stdin (the read after the last one returns none)
getCursorPosition(rows, cols, writeOk, reply) ==
    LET buf == CprBuf(reply)
        sc == Sscanf2(SubSeq(buf, 3, Len(buf)), rows, cols)
    IN  IF ~writeOk
        THEN [ret |-> -1, rows |-> rows, cols |-> cols, writes |-> <<CprRequest>>]
        ELSE IF Len(buf) < 2 \/ buf[1] # ESC \/ buf[2] # 91
        THEN [ret |-> -1, rows |-> rows, cols |-> cols, writes |-> <<CprRequest>>]
        ELSE [ret |-> IF sc.n = 2 THEN 0 ELSE -1,
              rows |-> sc.rows, cols |-> sc.cols, writes |-> <<CprRequest>>]

\* getWindowSize: ioctlOk, ws_row, ws_col are what TIOCGWINSZ gives
getWindowSize(rows, cols, ioctlOk, ws_row, ws_col, moveOk, writeOk, reply) ==
    IF ~ioctlOk \/ ws_col = 0
    THEN IF ~moveOk
         THEN [ret |-> -1, rows |-> rows, cols |-> cols, writes |-> <<GoBottomRight>>]
         ELSE LET r == getCursorPosition(rows, cols, writeOk, reply)
              IN  [r EXCEPT !.writes = <<GoBottomRight>> \o r.writes]
    ELSE [ret |-> 0, rows |-> ws_row, cols |-> ws_col, writes |-> <<>>]

\* the replies a terminal (or whatever feeds stdin) gives to the request
ReplyPrefix == {<<27, 91>>, <<91>>, <<27>>, <<>>, <<27, 79>>}
ReplyBody ==
    {Dec(r) \o <<59>> \o Dec(k) : r \in 0..MaxRows, k \in 0..MaxCols}
    \cup {<<>>, <<49>>, <<49, 59>>, <<59, 49>>, <<120, 59, 49>>, <<49, 59, 120>>,
          <<49, 59, 49, 120>>}
ReplyEnd == {<<82>>, <<>>, Repeat(<<120>>, CprCap) \o <<82>>}
CprReplies == {p \o b \o e : p \in ReplyPrefix, b \in ReplyBody, e \in ReplyEnd}

initEditor ==
    /\ pc = "initEditor"
    /\ cx' = 0
    /\ cy' = 0
    /\ numrows' = 0
    /\ row' = <<>>
    /\ \E ioctlOk \in BOOLEAN, ws_row \in 0..MaxRows, ws_col \in 0..MaxCols,
          moveOk \in BOOLEAN, writeOk \in BOOLEAN, reply \in CprReplies :
          LET r == getWindowSize(screenrows, screencols, ioctlOk, ws_row, ws_col,
                                 moveOk, writeOk, reply)
          IN  /\ screenrows' = r.rows
              /\ screencols' = r.cols
              /\ IF r.ret = -1
                 THEN Exit(1, r.writes \o dieWrites)
                 ELSE /\ pc' = "open"
                      /\ writes' = r.writes
                      /\ UNCHANGED exitStatus
    /\ UNCHANGED <<termVars, keyVars, unitVars>>
    /\ failed' = {}

(***************************************************************************)
(* The row store: editorAppendRow, editorOpen.                             *)
(***************************************************************************)
\* realloc(E.row, sizeof(erow) * n): the first slots kept, new ones not yet set
Resize(rw, n) == [i \in 1..n |-> IF i <= Len(rw) THEN rw[i] ELSE <<>>]

\* editorAppendRow(s, len) on the store (rw, nr) = (E.row, E.numrows)
editorAppendRow(rw, nr, s, len) ==
    [row |-> [Resize(rw, nr + 1) EXCEPT ![nr + 1] = SubSeq(s, 1, len)],
     numrows |-> 1]

RECURSIVE StripLen(_, _)
\* the while loop of editorOpen: linelen with trailing '\n' and '\r' removed
StripLen(line, linelen) ==
    IF linelen > 0 /\ (line[linelen] = 10 \/ line[linelen] = 13)
    THEN StripLen(line, linelen - 1)
    ELSE linelen

\* a getline() that hands back the whole file as one line
GetLineAll(f) == f

RECURSIVE GetLine(_)
\* getline(): the bytes up to and with the first '\n', <<>> at end of file
GetLine(f) ==
    IF f = <<>> THEN <<>>
    ELSE IF Head(f) = 10 THEN <<10>>
    ELSE <<Head(f)>> \o GetLine(Tail(f))

\* what editorOpen does with the line getline returned
openLine(rw, nr, line) ==
    editorAppendRow(rw, nr, line, StripLen(line, Len(line)))

\* editorOpen(filename) on the store (rw, nr) when fopen gives a file that holds f
openFile(rw, nr, f) ==
    LET line == GetLine(f)
        st == openLine(rw, nr, line)
    IN  IF line = <<>> THEN [row |-> rw, numrows |-> nr] ELSE st

\* the files main() may be given
Files ==
    {<<>>, <<97>>, <<10>>, <<97, 98, 10>>, <<97, 98, 13, 10>>, <<97, 13, 98, 10>>,
     <<97, 98, 99, 10>>, <<97, 10, 98, 10, 99, 10>>}

\* main()'s "if (argc >= 2) editorOpen(argv[1])"
editorOpen ==
    /\ pc = "open"
    /\ \/ /\ pc' = "refresh"
          /\ writes' = <<>>
          /\ UNCHANGED <<row, numrows, exitStatus>>
       \/ /\ die
          /\ UNCHANGED <<row, numrows>>
       \/ \E f \in Files :
             LET st == openFile(row, numrows, f)
             IN  /\ row' = st.row
                 /\ numrows' = st.numrows
                 /\ pc' = "refresh"
                 /\ writes' = <<>>
                 /\ UNCHANGED exitStatus
    /\ UNCHANGED <<termVars, cx, cy, screenrows, screencols, keyVars, unitVars>>
    /\ failed' = {}

(***************************************************************************)
(* The append buffer and the renderer.                                     *)
(***************************************************************************)
\* ABUF_INIT
ABUF_INIT == [b |-> <<>>, len |-> 0]

\* an abAppend that copies to the start of the block instead of to &new[ab->len]
abAppendOverwrites(a, s, len, ok) ==
    IF ~ok THEN a
    ELSE [b |-> SubSeq(s, 1, len) \o SubSeq(a.b, len + 1, Len(a.b)), len |-> a.len + len]

\* an abAppend that leaves the buffer empty when realloc returns no block
abAppendTruncates(a, s, len, ok) ==
    IF ~ok THEN [b |-> <<>>, len |-> 0]
    ELSE [b |-> a.b \o SubSeq(s, 1, len), len |-> a.len + len]

\* abAppend(ab, s, len); ok is whether realloc returned a block
abAppend(a, s, len, ok) ==
    IF ~ok THEN a
    ELSE [b |-> a.b \o SubSeq(s, 1, len), len |-> a.len + len]

Call(s, len) == [s |-> s, len |-> len]

\* a welcome row padded with spaces only, without the leading '~'
WelcomeCallsNoTilde ==
    LET welcome_len == Min(Len(Welcome), screencols)
        padding == (screencols - welcome_len) \div 2
    IN  Repeat(<<Call(Space, 1)>>, padding) \o <<Call(Welcome, welcome_len)>>

\* the abAppend calls editorDrawRows makes for the welcome row
WelcomeCalls ==
    LET welcome_len == Min(Len(Welcome), screencols)
        padding == (screencols - welcome_len) \div 2
    IN  (IF padding # 0
         THEN <<Call(Tilde, 1)>> \o Repeat(<<Call(Space, 1)>>, padding - 1)
         ELSE <<>>)
        \o <<Call(Welcome, welcome_len)>>

\* a loop body that appends a stored row whole, without the cut at screencols
RowCallsUncut(y) ==
    (IF y >= numrows
     THEN IF numrows = 0 /\ y = screenrows \div 3
          THEN WelcomeCalls
          ELSE <<Call(Tilde, 1)>>
     ELSE <<Call(row[y + 1], Len(row[y + 1]))>>)
    \o <<Call(EraseLine, 3)>>
    \o (IF y < screenrows - 1 THEN <<Call(CrLf, 2)>> ELSE <<>>)

\* the abAppend calls of one turn of editorDrawRows' loop, y counted from 0
RowCalls(y) ==
    (IF y >= numrows
     THEN IF numrows = 0 /\ y = screenrows \div 3
          THEN WelcomeCalls
          ELSE <<Call(Tilde, 1)>>
     ELSE <<Call(row[y + 1], Min(Len(row[y + 1]), screencols))>>)
    \o <<Call(EraseLine, 3)>>
    \o (IF y < screenrows - 1 THEN <<Call(CrLf, 2)>> ELSE <<>>)

RECURSIVE DrawFrom(_)
DrawFrom(y) == IF y >= screenrows THEN <<>> ELSE RowCalls(y) \o DrawFrom(y + 1)

\* the abAppend calls of editorDrawRows, in order
editorDrawRows == DrawFrom(0)

\* snprintf(buf, sizeof(buf), "\x1b[%d;%dH", E.cy + 1, E.cx + 1)
CursorTo == <<27, 91>> \o Dec(cy + 1) \o <<59>> \o Dec(cx + 1) \o <<72>>

\* the abAppend calls of editorRefreshScreen, in order
RefreshCalls ==
    <<Call(HideCursor, 6), Call(Home, 3)>>
    \o editorDrawRows
    \o <<Call(CursorTo, Len(CursorTo)), Call(ShowCursor, 6)>>

RECURSIVE AppendRange(_, _, _, _, _)
\* the calls lo..hi made in order on buffer a; those with an index in F fail
\* (the range is halved, and the first half is evaluated before the second is
\* begun, to keep the evaluation shallow)
AppendRange(a, calls, lo, hi, F) ==
    IF lo > hi THEN a
    ELSE IF lo = hi THEN abAppend(a, calls[lo].s, calls[lo].len, lo \notin F)
    ELSE LET mid == (lo + hi) \div 2
             first == AppendRange(a, calls, lo, mid, F)
         IN  IF first.len >= 0
             THEN AppendRange(first, calls, mid + 1, hi, F)
             ELSE first

\* a flush that writes the first byte and the rest of the buffer separately
flushInTwo(a) == <<SubSeq(a.b, 1, 1), SubSeq(a.b, 2, a.len)>>

\* write(STDOUT_FILENO, ab.b, ab.len): the write() calls that flush the buffer
flush(a) == <<SubSeq(a.b, 1, a.len)>>

RECURSIVE SubsetsUpTo(_, _)
\* the subsets of S with at most k elements
SubsetsUpTo(S, k) ==
    IF k = 0 THEN {{}}
    ELSE LET P == SubsetsUpTo(S, k - 1)
         IN  P \cup {q \cup {x} : q \in P, x \in S}

\* an editorRefreshScreen that leaves the cursor at the top-left corner
editorRefreshScreenHomes ==
    /\ pc = "refresh"
    /\ \E F \in SubsetsUpTo(1..Len(RefreshCalls), MaxAllocFail) :
          /\ writes' = flush(AppendRange(ABUF_INIT, RefreshCalls, 1, Len(RefreshCalls), F))
          /\ failed' = F
    /\ pc' = "read0"
    /\ cx' = 0
    /\ cy' = 0
    /\ UNCHANGED <<termVars, exitStatus, screenrows, screencols, numrows, row,
                   keyVars, unitVars>>

editorRefreshScreen ==
    /\ pc = "refresh"
    /\ \E F \in SubsetsUpTo(1..Len(RefreshCalls), MaxAllocFail) :
          /\ writes' = flush(AppendRange(ABUF_INIT, RefreshCalls, 1, Len(RefreshCalls), F))
          /\ failed' = F
    /\ pc' = "read0"
    /\ UNCHANGED <<termVars, exitStatus, editorVars, keyVars, unitVars>>

(***************************************************************************)
(* The cursor and the key decoder.                                         *)
(***************************************************************************)
\* an editorMoveCursor whose ARROW_RIGHT and ARROW_DOWN do not test the edge
editorMoveCursorNoEdge(k, p) ==
    IF k = ARROW_LEFT THEN (IF p.cx # 0 THEN [p EXCEPT !.cx = p.cx - 1] ELSE p)
    ELSE IF k = ARROW_RIGHT THEN [p EXCEPT !.cx = p.cx + 1]
    ELSE IF k = ARROW_UP THEN (IF p.cy # 0 THEN [p EXCEPT !.cy = p.cy - 1] ELSE p)
    ELSE IF k = ARROW_DOWN THEN [p EXCEPT !.cy = p.cy + 1]
    ELSE p

\* editorMoveCursor(key) on the cursor p = [cx, cy]
editorMoveCursor(k, p) ==
    IF k = ARROW_LEFT THEN (IF p.cx # 0 THEN [p EXCEPT !.cx = p.cx - 1] ELSE p)
    ELSE IF k = ARROW_RIGHT
    THEN (IF p.cx # screencols - 1 THEN [p EXCEPT !.cx = p.cx + 1] ELSE p)
    ELSE IF k = ARROW_UP THEN (IF p.cy # 0 THEN [p EXCEPT !.cy = p.cy - 1] ELSE p)
    ELSE IF k = ARROW_DOWN
    THEN (IF p.cy # screenrows - 1 THEN [p EXCEPT !.cy = p.cy + 1] ELSE p)
    ELSE p

RECURSIVE MoveTimes(_, _, _)
\* "while (times--) editorMoveCursor(k)"
MoveTimes(times, k, p) ==
    IF times = 0 THEN p ELSE MoveTimes(times - 1, k, editorMoveCursor(k, p))

\* the cursor after editorProcessKeypress has handled key k
CursorAfter(k) ==
    LET p == [cx |-> cx, cy |-> cy]
    IN  IF k = PAGE_UP THEN MoveTimes(screenrows, ARROW_UP, p)
        ELSE IF k = PAGE_DOWN THEN MoveTimes(screenrows, ARROW_DOWN, p)
        ELSE editorMoveCursor(k, p)

\* "return k" in editorReadKey: editorProcessKeypress goes on with k
Return(k) ==
    /\ key' = k
    /\ pc' = "process"
    /\ writes' = <<>>
    /\ UNCHANGED <<cx, cy, exitStatus>>

\* editorProcessKeypress once editorReadKey has returned: the switch on the key;
\* editorReadKey's locals are gone
editorProcessKeypress ==
    /\ pc = "process"
    /\ IF key = CTRL_Q
       THEN /\ Exit(0, <<ClearScreen, Home>>)
            /\ UNCHANGED <<cx, cy>>
       ELSE /\ cx' = CursorAfter(key).cx
            /\ cy' = CursorAfter(key).cy
            /\ cx' <= MaxCoord
            /\ cy' <= MaxCoord
            /\ pc' = "refresh"
            /\ writes' = <<>>
            /\ UNCHANGED exitStatus
    /\ c' = 0
    /\ seq' = <<>>
    /\ lastRead' = NoRead
    /\ key' = NoKey
    /\ failed' = {}
    /\ UNCHANGED <<termVars, screenrows, screencols, numrows, row, unitVars>>

\* the bytes stdin delivers
InputBytes == {17, 27, 49, 51, 53, 54, 65, 66, 67, 68, 91, 120, 126, 200}

ReadOutcomes == {ReadByte(b) : b \in InputBytes} \cup {ReadTimeout, ReadEAGAIN, ReadEIO}

\* "return c": the int a char holds; char is signed or unsigned with the target
CharToInt(b, signedChar) == IF signedChar /\ b >= 128 THEN b - 256 ELSE b

\* a switch on seq[1] with the cases of 'C' and 'D' exchanged
decodeLetterSwapped(s1) ==
    IF s1 = 65 THEN ARROW_UP
    ELSE IF s1 = 66 THEN ARROW_DOWN
    ELSE IF s1 = 67 THEN ARROW_LEFT
    ELSE IF s1 = 68 THEN ARROW_RIGHT
    ELSE ESC

\* the switch on seq[1] for ESC [ letter
decodeLetter(s1) ==
    IF s1 = 65 THEN ARROW_UP
    ELSE IF s1 = 66 THEN ARROW_DOWN
    ELSE IF s1 = 67 THEN ARROW_RIGHT
    ELSE IF s1 = 68 THEN ARROW_LEFT
    ELSE ESC

\* a decoding of ESC [ digit byte that does not test the byte for '~'
decodeTildeUnchecked(s1, s2) ==
    IF s1 = 51 THEN DEL_KEY
    ELSE IF s1 = 53 THEN PAGE_UP
    ELSE IF s1 = 54 THEN PAGE_DOWN
    ELSE ESC

\* a decoding of ESC [ digit byte that returns the byte when it is not '~'
decodeTildeEmits(s1, s2) ==
    IF s2 = 126
    THEN IF s1 = 51 THEN DEL_KEY
         ELSE IF s1 = 53 THEN PAGE_UP
         ELSE IF s1 = 54 THEN PAGE_DOWN
         ELSE ESC
    ELSE s2

\* the test of seq[2] and the switch on seq[1] for ESC [ digit byte
decodeTilde(s1, s2) ==
    IF s2 = 126
    THEN IF s1 = 51 THEN DEL_KEY
         ELSE IF s1 = 53 THEN PAGE_UP
         ELSE IF s1 = 54 THEN PAGE_DOWN
         ELSE ESC
    ELSE ESC

\* the while loop of editorReadKey: one read of the first byte
ReadFirst ==
    /\ pc = "read0"
    /\ \E o \in ReadOutcomes :
          /\ lastRead' = o
          /\ IF o.n = 1
             THEN /\ c' = o.b
                  /\ seq' = <<>>
                  /\ IF o.b = ESC
                     THEN /\ pc' = "read1"
                          /\ writes' = <<>>
                          /\ UNCHANGED <<key, cx, cy, exitStatus>>
                     ELSE \E signedChar \in BOOLEAN :
                             Return(CharToInt(o.b, signedChar))
             ELSE IF o.n = -1 /\ o.errno # "EAGAIN"
             THEN /\ die
                  /\ UNCHANGED <<c, seq, key, cx, cy>>
             ELSE /\ writes' = <<>>
                  /\ UNCHANGED <<pc, c, seq, key, cx, cy, exitStatus>>
    /\ UNCHANGED <<termVars, screenrows, screencols, numrows, row, unitVars>>
    /\ failed' = {}

\* "if (read(STDIN_FILENO, &seq[0], 1) != 1) return '\x1b';"
ReadSeq0 ==
    /\ pc = "read1"
    /\ \E o \in ReadOutcomes :
          /\ lastRead' = o
          /\ IF o.n # 1
             THEN /\ Return(ESC)
                  /\ UNCHANGED seq
             ELSE /\ seq' = <<o.b>>
                  /\ pc' = "read2"
                  /\ writes' = <<>>
                  /\ UNCHANGED <<key, cx, cy, exitStatus>>
    /\ UNCHANGED <<termVars, screenrows, screencols, numrows, row, c, unitVars>>
    /\ failed' = {}

\* the read of seq[1], and the decoding that needs no further byte
ReadSeq1 ==
    /\ pc = "read2"
    /\ \E o \in ReadOutcomes :
          /\ lastRead' = o
          /\ IF o.n # 1
             THEN /\ Return(ESC)
                  /\ UNCHANGED seq
             ELSE /\ seq' = seq \o <<o.b>>
                  /\ IF seq[1] = 91
                     THEN IF IsDigit(o.b)
                          THEN /\ pc' = "read3"
                               /\ writes' = <<>>
                               /\ UNCHANGED <<key, cx, cy, exitStatus>>
                          ELSE Return(decodeLetter(o.b))
                     ELSE Return(ESC)
    /\ UNCHANGED <<termVars, screenrows, screencols, numrows, row, c, unitVars>>
    /\ failed' = {}

\* the read of seq[2] after ESC [ digit
ReadSeq2 ==
    /\ pc = "read3"
    /\ \E o \in ReadOutcomes :
          /\ lastRead' = o
          /\ IF o.n # 1
             THEN /\ Return(ESC)
                  /\ UNCHANGED seq
             ELSE /\ seq' = seq \o <<o.b>>
                  /\ Return(decodeTilde(seq[2], o.b))
    /\ UNCHANGED <<termVars, screenrows, screencols, numrows, row, c, unitVars>>
    /\ failed' = {}

(***************************************************************************)
(* The program: main().                                                    *)
(***************************************************************************)
InitCommon ==
    /\ term = "cooked"
    /\ orig_termios = "unset"
    /\ atexitReg = FALSE
    /\ exitStatus = -1
    /\ restores = 0
    /\ restoreFailed = FALSE
    /\ cx = 0 /\ cy = 0 /\ screenrows = 0 /\ screencols = 0
    /\ numrows = 0 /\ row = <<>>
    /\ c = 0 /\ seq = <<>> /\ lastRead = NoRead /\ key = NoKey
    /\ writes = <<>>
    /\ failed = {}
    /\ ab = ABUF_INIT
    /\ asked = <<>>
    /\ appended = <<>>
    /\ opened = <<>>
    /\ stdinBytes = <<>>
    /\ probe = NoProbe

Init == InitCommon /\ pc = "main"

Next ==
    \/ enableRawMode
    \/ initEditor
    \/ editorOpen
    \/ editorRefreshScreen
    \/ ReadFirst
    \/ ReadSeq0
    \/ ReadSeq1
    \/ ReadSeq2
    \/ editorProcessKeypress
    \/ disableRawMode
    \/ ExitNoHandler

Spec == Init /\ [][Next]_vars

(***************************************************************************)
(* The append buffer on its own: abAppend calls on a buffer that starts as *)
(* ABUF_INIT.                                                              *)
(***************************************************************************)
AbufPieces == {<<>>, Tilde, CrLf, EraseLine}

AbufAppend ==
    /\ pc = "abuf"
    /\ Len(asked) < MaxAppends
    /\ \E s \in AbufPieces, ok \in BOOLEAN :
          /\ ab' = abAppend(ab, s, Len(s), ok)
          /\ asked' = Append(asked, <<s, ok>>)
    /\ UNCHANGED <<pc, termVars, exitStatus, editorVars, keyVars, writes, failed,
                   appended, opened, stdinBytes, probe>>

InitAbuf == InitCommon /\ pc = "abuf"

NextAbuf == AbufAppend

SpecAbuf == InitAbuf /\ [][NextAbuf]_vars

(***************************************************************************)
(* The row store on its own: lines appended as editorOpen appends one, to  *)
(* the store initEditor leaves.                                            *)
(***************************************************************************)
\* "a\n", "bc\r\n", "hello\r\n", "d", "\n"
Lines ==
    {<<97, 10>>, <<98, 99, 13, 10>>, <<104, 101, 108, 108, 111, 13, 10>>, <<100>>,
     <<10>>}

RowStoreAppend ==
    /\ pc = "rowstore"
    /\ Len(appended) < MaxAppends
    /\ \E line \in Lines :
          LET st == openLine(row, numrows, line)
          IN  /\ row' = st.row
              /\ numrows' = st.numrows
              /\ appended' = Append(appended, line)
    /\ UNCHANGED <<pc, termVars, exitStatus, cx, cy, screenrows, screencols, keyVars,
                   writes, failed, ab, asked, opened, stdinBytes, probe>>

InitRowStore == InitCommon /\ pc = "rowstore"

NextRowStore == RowStoreAppend

SpecRowStore == InitRowStore /\ [][NextRowStore]_vars

(***************************************************************************)
(* The renderer in a 24x80 viewport with no file: the states main()'s loop *)
(* is in before editorRefreshScreen, for a choice of cursor positions.     *)
(***************************************************************************)
InitRender24 ==
    /\ pc = "refresh"
    /\ term = "raw"
    /\ orig_termios = "cooked"
    /\ atexitReg = TRUE
    /\ exitStatus = -1
    /\ restores = 0
    /\ restoreFailed = FALSE
    /\ screenrows = 24 /\ screencols = 80
    /\ cx \in {0, 8, 79} /\ cy \in {0, 9, 23}
    /\ numrows = 0 /\ row = <<>>
    /\ c = 0 /\ seq = <<>> /\ lastRead = NoRead /\ key = NoKey
    /\ writes = <<>>
    /\ failed = {}
    /\ ab = ABUF_INIT
    /\ asked = <<>>
    /\ appended = <<>>
    /\ opened = <<>>
    /\ stdinBytes = <<>>
    /\ probe = NoProbe

NextRender24 == editorRefreshScreen

SpecRender24 == InitRender24 /\ [][NextRender24]_vars

(***************************************************************************)
(* editorOpen on its own: one call on a readable file, with the store as   *)
(* initEditor leaves it.                                                   *)
(***************************************************************************)
\* 'a', '\r', '\n'
FileBytes == {97, 13, 10}

FilesUpTo(n) == UNION {[1..k -> FileBytes] : k \in 0..n}

editorOpenFile ==
    /\ pc = "openfile"
    /\ \E f \in FilesUpTo(MaxFileLen) :
          LET st == openFile(row, numrows, f)
          IN  /\ opened' = f
              /\ row' = st.row
              /\ numrows' = st.numrows
    /\ pc' = "opened"
    /\ UNCHANGED <<termVars, exitStatus, cx, cy, screenrows, screencols, keyVars,
                   writes, failed, ab, asked, appended, stdinBytes, probe>>

InitOpen == InitCommon /\ pc = "openfile"

NextOpen == editorOpenFile

SpecOpen == InitOpen /\ [][NextOpen]_vars

(***************************************************************************)
(* getCursorPosition on its own: calls of it, each with a reply of its own *)
(* waiting on stdin.                                                       *)
(***************************************************************************)
getCursorPositionCall ==
    /\ pc = "probe"
    /\ \E rp \in CprReplies, writeOk \in BOOLEAN :
          /\ stdinBytes' = rp
          /\ probe' = getCursorPosition(screenrows, screencols, writeOk, rp)
    /\ UNCHANGED <<pc, termVars, exitStatus, editorVars, keyVars, writes, failed,
                   ab, asked, appended, opened>>

InitProbe == InitCommon /\ pc = "probe"

NextProbe == getCursorPositionCall

SpecProbe == InitProbe /\ [][NextProbe]_vars

(***************************************************************************)
(* Properties.                                                             *)
(***************************************************************************)
Terminated == pc \in {"done", "crashed"}

\* initEditor has succeeded and the process has not begun to exit
Running == pc \in {"open", "refresh", "read0", "read1", "read2", "read3", "process"}

\* editorReadKey has just returned `key`
KeyReturned == pc = "process"

\* C1 as stated: in every terminated state the terminal is not in raw mode and
\* its attributes equal the snapshot enableRawMode captured.
C1_RestoredOnEveryExit ==
    Terminated =>
        /\ term # "raw"
        /\ (orig_termios # "unset" => term = orig_termios)

\* C1, amended: in every terminated state in which the tcsetattr of
\* disableRawMode did not fail, the terminal has the attributes it had at
\* startup, which are the snapshot whenever tcgetattr captured one.
C1_RestoredUnlessRestoreFails ==
    (Terminated /\ ~restoreFailed) =>
        /\ term = "cooked"
        /\ (orig_termios # "unset" => term = orig_termios)

\* the process ended after raw mode was entered and one successful restore
C1_Witness ==
    /\ pc = "done"
    /\ exitStatus = 0
    /\ restores = 1
    /\ ~restoreFailed
    /\ orig_termios = "cooked"
    /\ term = "cooked"

\* C2 as stated: once initEditor has succeeded, whatever keys are processed,
\* 0 <= cx <= screencols-1 and 0 <= cy <= screenrows-1.
C2_CursorInViewport ==
    Running =>
        /\ 0 <= cx /\ cx <= screencols - 1
        /\ 0 <= cy /\ cy <= screenrows - 1

\* C3: editorReadKey returns the logical key of each recognised input: a byte
\* other than ESC gives that byte, ESC [ A/B/C/D the arrows, ESC [ 3/5/6 ~
\* Delete, PageUp, PageDown, and ESC followed by a read that times out Escape.
C3_DecodesRecognisedInput ==
    KeyReturned =>
        /\ (c # ESC => /\ key \in {c, c - 256}
                       /\ (c < 128 => key = c)
                       /\ (key - c) % 256 = 0)
        /\ (c = ESC /\ seq = <<91, 65>> => key = ARROW_UP)
        /\ (c = ESC /\ seq = <<91, 66>> => key = ARROW_DOWN)
        /\ (c = ESC /\ seq = <<91, 67>> => key = ARROW_RIGHT)
        /\ (c = ESC /\ seq = <<91, 68>> => key = ARROW_LEFT)
        /\ (c = ESC /\ seq = <<91, 51, 126>> => key = DEL_KEY)
        /\ (c = ESC /\ seq = <<91, 53, 126>> => key = PAGE_UP)
        /\ (c = ESC /\ seq = <<91, 54, 126>> => key = PAGE_DOWN)
        /\ (c = ESC /\ seq = <<>> /\ lastRead = ReadTimeout => key = ESC)

\* ESC [ D has been decoded as the left arrow
C3_Witness ==
    /\ KeyReturned
    /\ c = ESC
    /\ seq = <<91, 68>>
    /\ key = ARROW_LEFT

\* C4: after ESC [ digit, when the digit is not 3, 5 or 6, or no byte follows
\* the digit, or the byte that follows is not '~', editorReadKey returns Escape.
C4_BadNumericSequenceIsEscape ==
    (/\ KeyReturned
     /\ c = ESC
     /\ Len(seq) >= 2
     /\ seq[1] = 91
     /\ IsDigit(seq[2])
     /\ \/ seq[2] \notin {51, 53, 54}
        \/ Len(seq) = 2
        \/ seq[3] # 126)
    => key = ESC

\* ESC [ 5 x, a page-up digit with a wrong terminator, has been decoded
C4_Witness ==
    /\ KeyReturned
    /\ c = ESC
    /\ seq = <<91, 53, 120>>
    /\ key = ESC

\* C5 as stated: when a read of the key decoder fails with an error other than
\* EAGAIN, the process is on the fatal path with status 1 and no key is returned.
C5_ReadErrorIsFatal ==
    lastRead = ReadEIO =>
        /\ pc \in {"atexit", "done", "crashed"}
        /\ exitStatus = 1
        /\ key = NoKey

\* editorRefreshScreen has just returned: `writes` and `failed` are its own
AfterRefresh == pc = "read0" /\ lastRead = NoRead

RECURSIVE Kept(_, _, _, _)
\* the bytes of the calls lo..hi, those with an index in F left out
Kept(calls, lo, hi, F) ==
    IF lo > hi THEN <<>>
    ELSE IF lo = hi
    THEN (IF lo \in F THEN <<>> ELSE SubSeq(calls[lo].s, 1, calls[lo].len))
    ELSE LET mid == (lo + hi) \div 2
         IN  Kept(calls, lo, mid, F) \o Kept(calls, mid + 1, hi, F)

\* hide cursor, home, every viewport row, cursor position, show cursor
CompleteFrame ==
    HideCursor \o Home \o Kept(editorDrawRows, 1, Len(editorDrawRows), {}) \o CursorTo \o ShowCursor

\* C6 as stated: every editorRefreshScreen issues exactly one write, and that
\* write carries the complete frame.
C6_OneWriteOfCompleteFrame ==
    AfterRefresh => (Len(writes) = 1 /\ writes[1] = CompleteFrame)

\* C6, amended: every editorRefreshScreen issues exactly one write; it carries,
\* in call order, the bytes of the abAppend calls whose realloc succeeded, which
\* is the complete frame when none failed.
C6_OneWriteOfAppendedPieces ==
    AfterRefresh =>
        /\ Len(writes) = 1
        /\ writes[1] = Kept(RefreshCalls, 1, Len(RefreshCalls), failed)
        /\ (failed = {} => writes[1] = CompleteFrame)

\* a frame of two rows has been written whole, after a key was handled
C6_Witness ==
    /\ AfterRefresh
    /\ failed = {}
    /\ screenrows = 2 /\ screencols = 2
    /\ cx = 1 /\ cy = 1
    /\ Len(writes) = 1
    /\ Len(writes[1]) > 20

RECURSIVE AskedBytes(_, _, _)
\* the bytes of the calls of `asked` from the i-th on; with okOnly, only of
\* the calls that succeeded
AskedBytes(calls, i, okOnly) ==
    IF i > Len(calls) THEN <<>>
    ELSE (IF okOnly /\ ~calls[i][2] THEN <<>> ELSE calls[i][1])
         \o AskedBytes(calls, i + 1, okOnly)

\* C7 as stated: after N abAppend calls on an empty buffer, len is the sum of
\* the lengths and the contents are the appended strings in call order.
C7_LenAndContentsOfAllCalls ==
    pc = "abuf" =>
        /\ ab.len = Len(AskedBytes(asked, 1, FALSE))
        /\ ab.b = AskedBytes(asked, 1, FALSE)

\* C7, amended: after N abAppend calls on an empty buffer, len is the sum of the
\* lengths of the calls whose realloc succeeded and the contents are their
\* strings in call order; with no failure, those of all N calls.
C7_LenAndContentsOfSucceededCalls ==
    pc = "abuf" =>
        /\ ab.len = Len(AskedBytes(asked, 1, TRUE))
        /\ ab.b = AskedBytes(asked, 1, TRUE)
        /\ ((\A i \in 1..Len(asked) : asked[i][2]) =>
               /\ ab.len = Len(AskedBytes(asked, 1, FALSE))
               /\ ab.b = AskedBytes(asked, 1, FALSE))

\* "~", "\x1b[K", "\r\n" appended in this order, all three with success
C7_Witness ==
    /\ pc = "abuf"
    /\ asked = <<<<Tilde, TRUE>>, <<EraseLine, TRUE>>, <<CrLf, TRUE>>>>
    /\ ab.len = 6
    /\ ab.b = <<126, 27, 91, 75, 13, 10>>

\* a line without its trailing CR and LF bytes
RECURSIVE Stripped(_)
Stripped(line) ==
    IF line # <<>> /\ line[Len(line)] \in {10, 13}
    THEN Stripped(SubSeq(line, 1, Len(line) - 1))
    ELSE line

\* C8 as stated: after k appends to an empty store, count() is k and rowAt(i) is
\* the i-th appended line without its trailing CR/LF, for each i (so that no
\* append changes an earlier row).
C8_AppendOnlyOrdered ==
    pc = "rowstore" =>
        /\ numrows = Len(appended)
        /\ Len(row) >= Len(appended)
        /\ \A i \in 1..Len(appended) : row[i] = Stripped(appended[i])

\* the digits of n for 0 <= n < 100
Dec2(n) == IF n < 10 THEN <<48 + n>> ELSE <<48 + (n \div 10), 48 + (n % 10)>>

\* row y of the frame of an empty document in 24x80: the banner on row 8,
\* after '~' and 25 spaces; '~' on the others
Row24(y) == IF y = 8 THEN Tilde \o Repeat(Space, 25) \o Welcome ELSE Tilde

RECURSIVE Rows24(_)
Rows24(y) ==
    IF y > 23 THEN <<>>
    ELSE Row24(y) \o EraseLine \o (IF y < 23 THEN CrLf ELSE <<>>) \o Rows24(y + 1)

Frame24 ==
    HideCursor \o Home \o Rows24(0)
    \o <<27, 91>> \o Dec2(cy + 1) \o <<59>> \o Dec2(cx + 1) \o <<72>> \o ShowCursor

RowText(y) ==
    IF y < numrows THEN SubSeq(row[y + 1], 1, Min(Len(row[y + 1]), screencols))
    ELSE Tilde

RECURSIVE RowsText(_)
RowsText(y) ==
    IF y >= screenrows THEN <<>>
    ELSE RowText(y) \o EraseLine \o (IF y < screenrows - 1 THEN CrLf ELSE <<>>)
         \o RowsText(y + 1)

\* C10 as stated: for every stored row y < screenrows the frame holds, as
\* viewport row y, the first min(size, screencols) bytes of the row and then
\* ESC[K, and no other viewport row holds a byte of it.
C10_StoredRowsCut ==
    (AfterRefresh /\ numrows >= 1 /\ screenrows >= 1) =>
        writes = <<HideCursor \o Home \o RowsText(0) \o CursorTo \o ShowCursor>>

\* C10, amended: as stated, when no abAppend of the frame failed.
C10_StoredRowsCutNoFailure ==
    (AfterRefresh /\ failed = {} /\ numrows >= 1 /\ screenrows >= 1) =>
        writes = <<HideCursor \o Home \o RowsText(0) \o CursorTo \o ShowCursor>>

\* the row "abc" has been drawn in a viewport one column wide
C10_Witness ==
    /\ AfterRefresh
    /\ failed = {}
    /\ numrows = 1
    /\ row[1] = <<97, 98, 99>>
    /\ screencols = 1 /\ screenrows = 2
    /\ writes[1] = HideCursor \o Home \o <<97>> \o EraseLine \o CrLf
                   \o Tilde \o EraseLine \o CursorTo \o ShowCursor

\* the reply starts with ESC [
HasPrefix(r) == Len(r) >= 2 /\ r[1] = ESC /\ r[2] = 91

\* the terminator 'R' is among the bytes the read loop can take
TerminatorArrives(r) == \E i \in 1..Min(Len(r), CprCap) : r[i] = 82

\* s is one or more decimal digits
IsNumber(s) == Len(s) >= 1 /\ \A i \in 1..Len(s) : IsDigit(s[i])

\* what follows ESC [ up to the terminator is number ; number
NumericFields(r) ==
    LET body == SubSeq(UpToR(r), 3, Len(UpToR(r)))
    IN  \E i \in 1..Len(body) :
           /\ body[i] = 59
           /\ IsNumber(SubSeq(body, 1, i - 1))
           /\ IsNumber(SubSeq(body, i + 1, Len(body)))

\* C11 as stated: getCursorPosition returns -1 for every malformed reply: one
\* that does not start with ESC [, one whose terminator 'R' does not arrive
\* before the read times out or 31 bytes are taken, one whose row or column
\* field is not numeric.
C11_MalformedReplyFails ==
    (/\ probe # NoProbe
     /\ \/ ~HasPrefix(stdinBytes)
        \/ ~TerminatorArrives(stdinBytes)
        \/ ~NumericFields(stdinBytes))
    => probe.ret = -1

\* C12 as stated: whenever initEditor has succeeded, by TIOCGWINSZ or by the
\* cursor-position fallback, screenrows >= 1 and screencols >= 1, and no later
\* step of the session changes screenrows or screencols.
C12_ViewportAtLeastOneAndFixed ==
    [][/\ Running' => (screenrows' >= 1 /\ screencols' >= 1)
       /\ Running => UNCHANGED <<screenrows, screencols>>]_vars

\* the step in which editorProcessKeypress handles the quit key
QuitStep == pc = "process" /\ key = CTRL_Q

\* a step in which die() is called from main()'s code
FatalStep == pc \notin {"process", "atexit", "done", "crashed"} /\ pc' = "atexit"

\* the last two writes of w are ESC[2J and ESC[H
ClearThenHome(w) ==
    /\ Len(w) >= 2
    /\ w[Len(w) - 1] = ClearScreen
    /\ w[Len(w)] = Home

\* C13 as stated: the process ends with status 0 exactly when the quit key
\* caused the termination and with status 1 when a fatal failure (tcgetattr,
\* tcsetattr, the size probe, read, fopen) caused it, and in both cases ESC[2J
\* and ESC[H are written before it ends.
C13_ExitStatusByCause ==
    [][/\ QuitStep => (pc' = "atexit" /\ exitStatus' = 0 /\ ClearThenHome(writes'))
       /\ FatalStep => (exitStatus' = 1 /\ ClearThenHome(writes'))
       /\ (pc = "atexit" /\ Terminated') => (pc' = "done" /\ exitStatus' = exitStatus)
       /\ (pc' = "atexit" /\ exitStatus' = 0) => QuitStep]_vars

RECURSIVE FirstLine(_)
\* the bytes of f before its first line feed
FirstLine(f) ==
    IF f = <<>> \/ Head(f) = 10 THEN <<>> ELSE <<Head(f)>> \o FirstLine(Tail(f))

RECURSIVE NoTrailingCr(_)
\* s without the carriage returns at its end
NoTrailingCr(s) ==
    IF s # <<>> /\ s[Len(s)] = 13 THEN NoTrailingCr(SubSeq(s, 1, Len(s) - 1)) ELSE s

\* C14: after editorOpen on a readable file the row store holds the file's
\* first line without its trailing CR/LF and nothing else: numrows is 1 for a
\* file of one or more lines and 0 for an empty file; no later line is stored.
C14_FirstLineOnly ==
    pc = "opened" =>
        IF opened = <<>>
        THEN numrows = 0 /\ row = <<>>
        ELSE numrows = 1 /\ row = <<NoTrailingCr(FirstLine(opened))>>

\* the three-line file "a\na\na\n" has been opened and one row "a" is stored
C14_Witness ==
    /\ pc = "opened"
    /\ opened = <<97, 10, 97, 10, 97, 10>>
    /\ numrows = 1
    /\ row = <<<<97>>>>

\* C15 as stated: on every exit path, the failure of the initial tcgetattr and
\* the failure of the restore itself among them, disableRawMode's tcsetattr
\* with the snapshot has been called exactly once when the process has ended.
C15_RestoreExactlyOnce ==
    Terminated => restores = 1

\* C15, amended: when the process has ended, disableRawMode's tcsetattr has
\* been called exactly once if tcgetattr captured a snapshot, the failure of
\* that very call included, and not at all if tcgetattr failed; it is never
\* called more than once.
C15_RestoreOnceIfSnapshot ==
    /\ restores <= 1
    /\ Terminated => restores = (IF orig_termios # "unset" THEN 1 ELSE 0)
    /\ (restores = 1 /\ ~restoreFailed) => term = orig_termios

\* the process has ended on the path where the one restore call itself failed
C15_Witness ==
    /\ Terminated
    /\ orig_termios = "cooked"
    /\ restoreFailed
    /\ restores = 1
    /\ term = "raw"

\* the cursor is inside the viewport
InRange == 0 <= cx /\ cx <= screencols - 1 /\ 0 <= cy /\ cy <= screenrows - 1

Reading == pc \in {"read0", "read1", "read2", "read3"}

\* the writes a step makes hold no frame: none, or the ESC[2J, ESC[H of exit
NoFrame(w) == w \in {<<>>, <<ClearScreen, Home>>}

\* C17: main()'s loop alternates its phases. A decoded key other than quit is
\* followed by editorRefreshScreen, which makes one write and leaves cx, cy,
\* the rows and the viewport size as they are, and only then by the next read;
\* the read-decode phase writes no frame, so one frame lies between two
\* decoded keys; after the quit key no frame is written; the cursor changes
\* only in the read-decode phase and the row store not at all in the loop.
C17_PhasesAlternate ==
    [][/\ (pc = "process" /\ key # CTRL_Q) => (pc' = "refresh" /\ NoFrame(writes'))
       /\ (pc = "process" /\ key = CTRL_Q) => (pc' = "atexit" /\ NoFrame(writes'))
       /\ pc = "refresh" =>
             /\ pc' = "read0"
             /\ Len(writes') = 1
             /\ ~NoFrame(writes')
             /\ UNCHANGED editorVars
       /\ Reading =>
             /\ Reading' \/ pc' \in {"process", "atexit"}
             /\ NoFrame(writes')
             /\ UNCHANGED editorVars
       /\ pc = "atexit" => (Terminated' /\ NoFrame(writes') /\ UNCHANGED editorVars)
       /\ pc \in {"refresh", "process"} \cup {"read0", "read1", "read2", "read3"} =>
             UNCHANGED <<row, numrows, screenrows, screencols>>]_vars

\* a frame has been written after a key that moved the cursor right, and the
\* next read has not begun
C17_Witness ==
    /\ AfterRefresh
    /\ Len(writes) = 1
    /\ screencols = 2
    /\ cx = 1
    /\ cy = 0
    /\ failed = {}

\* C18 as stated: at termination the terminal mode is restored first, then
\* ESC[2J is written, then ESC[H, then the process exits: a step that writes
\* ESC[2J and ESC[H for the teardown begins with the terminal not in raw mode
\* and, when a snapshot was captured, with the restore already made.
C18_RestoreBeforeClear ==
    [][ClearThenHome(writes') =>
         /\ term # "raw"
         /\ (orig_termios' # "unset" => restores >= 1)]_vars

\* C19: when realloc fails inside an abAppend of editorRefreshScreen, the
\* buffer's bytes and len after the call are those before it, the appends made
\* after it in the frame are in the buffer, and the frame is flushed with one
\* write.
C19_DroppedAppendKeepsBuffer ==
    (AfterRefresh /\ failed # {}) =>
        /\ Len(writes) = 1
        /\ \A i \in failed :
              LET before == AppendRange(ABUF_INIT, RefreshCalls, 1, i - 1, failed)
                  dropped == abAppend(before, RefreshCalls[i].s, RefreshCalls[i].len, FALSE)
              IN  /\ dropped.b = before.b
                  /\ dropped.len = before.len
                  /\ writes[1] = SubSeq(before.b, 1, before.len)
                                     \o Kept(RefreshCalls, i + 1, Len(RefreshCalls), failed)

\* a frame of an empty document in a 2x2 viewport has been written after the
\* realloc of its sixth abAppend, the '~' of the second row, failed
C19_Witness ==
    /\ AfterRefresh
    /\ failed = {6}
    /\ screenrows = 2
    /\ screencols = 2
    /\ numrows = 0
    /\ RefreshCalls[6].s = Tilde
    /\ Len(writes) = 1
    /\ writes[1] = HideCursor \o Home \o <<75, 105>> \o EraseLine \o CrLf
                       \o EraseLine \o CursorTo \o ShowCursor

\* the keys an input that begins with ESC can be decoded to
EscapeKeys == {ESC, ARROW_LEFT, ARROW_RIGHT, ARROW_UP, ARROW_DOWN, DEL_KEY, PAGE_UP, PAGE_DOWN}

====
